---- MODULE Spec2Model ----
(***************************************************************************)
(* Model of src/force.py: a two-dimensional Newtonian gravity integrator.  *)
(*                                                                         *)
(* Numbers.  The program computes in Python floats: binary floating point  *)
(* with a 53-bit significand, every operation rounded to nearest, ties to  *)
(* even.  The model keeps that arithmetic and scales the significand down  *)
(* to Precision bits.  A number is a record [n, d, e] that stands for      *)
(* n/d * 2^e, kept in normal form (n and d odd and coprime, d > 0; zero is *)
(* [0, 1, 0]), so that two numbers are equal exactly when their records    *)
(* are.  A float is a number with d = 1 and |n| < 2^Precision.  The        *)
(* exponent is not bounded: overflow to infinity and underflow are outside *)
(* the model.                                                              *)
(*                                                                         *)
(* The variable arith selects how a run is evaluated: "float" is the       *)
(* program's arithmetic; "real" evaluates the same operations without      *)
(* rounding, which is the reading "in exact arithmetic" of the             *)
(* specification.                                                          *)
(***************************************************************************)
EXTENDS Integers, Sequences, FiniteSets

VARIABLES
    arith,          \* "float" or "real": the arithmetic of the run
    time_step,      \* seconds_in_one_step
    solar_system,   \* the list of MassiveObjects
    pc,             \* where the loop body is: "force", "move", "raised", "done"
    pair,           \* main: position of the loop over the pairs
    object,         \* main: position of the loop over the objects
    step,           \* main: iterations completed
    start,          \* history: solar_system when the iteration began
    before,         \* history: solar_system before the last call (main), or
                    \* when the position updates began (parallel execution)
    calls,          \* history: the pairs apply_gravity was called with, in order
    initial,        \* history: solar_system at the beginning of the run
    at,             \* parallel execution: position of each process
    read,           \* parallel execution: the value each process has read
    overlapped      \* history: a call began while another was in progress

vars == <<arith, time_step, solar_system, pc, pair, object, step,
          start, before, calls, initial, at, read, overlapped>>

\* What only the parallel execution uses.
parallel == <<at, read, overlapped>>

\* Bits of the significand of a float (Python: 53).
Precision == 4

\* Iterations of the simulation loop that a run performs (main performs
\* days_in_one_year * steps = 365 * 100).
MaxSteps == 2

---------------------------------------------------------------------------
\* Integer helpers.

RECURSIVE Pow2(_)
Pow2(k) == IF k = 0 THEN 1 ELSE 2 * Pow2(k - 1)

RECURSIVE BitLen(_)
BitLen(a) == IF a = 0 THEN 0 ELSE 1 + BitLen(a \div 2)

RECURSIVE Gcd(_, _)
Gcd(a, b) == IF b = 0 THEN a ELSE Gcd(b, a % b)

Abs(a) == IF a < 0 THEN -a ELSE a

Sgn(a) == IF a < 0 THEN -1 ELSE IF a > 0 THEN 1 ELSE 0

\* The largest r with r * r <= a, by bisection on [lo, hi).
RECURSIVE IsqrtIn(_, _, _)
IsqrtIn(a, lo, hi) ==
    IF hi - lo <= 1 THEN lo
    ELSE LET mid == (lo + hi) \div 2
         IN  IF mid * mid <= a THEN IsqrtIn(a, mid, hi) ELSE IsqrtIn(a, lo, mid)

Isqrt(a) == IsqrtIn(a, 0, Pow2((BitLen(a) + 1) \div 2) + 1)

---------------------------------------------------------------------------
\* Numbers in normal form.

Zero == [n |-> 0, d |-> 1, e |-> 0]

\* The number of trailing zero bits of a > 0.
RECURSIVE Twos(_)
Twos(a) == IF a % 2 = 1 THEN 0 ELSE 1 + Twos(a \div 2)

\* n/d * 2^e in normal form (d > 0).
Mk(n, d, e) ==
    IF n = 0 THEN Zero
    ELSE LET g  == Gcd(Abs(n), d)
             n1 == Abs(n) \div g
             d1 == d \div g
             tn == Twos(n1)
             td == Twos(d1)
         IN  [n |-> Sgn(n) * (n1 \div Pow2(tn)),
              d |-> d1 \div Pow2(td),
              e |-> e + tn - td]

\* k * 2^e as a number.
Num(k, e) == Mk(k, 1, e)

IsZero(x) == x.n = 0

\* The position of the leading bit of a nonzero float: 2^Msb <= |x| < 2^(Msb+1).
Msb(x) == x.e + BitLen(Abs(x.n)) - 1

\* Unary minus: exact in both arithmetics.
Neg(x) == [x EXCEPT !.n = -x.n]

\* Exact sum, product and quotient (y # 0) of two numbers.
QAdd(x, y) ==
    IF IsZero(x) THEN y
    ELSE IF IsZero(y) THEN x
    ELSE LET e == IF x.e < y.e THEN x.e ELSE y.e
         IN  Mk(x.n * Pow2(x.e - e) * y.d + y.n * Pow2(y.e - e) * x.d,
                x.d * y.d, e)

QSub(x, y) == QAdd(x, Neg(y))

QMul(x, y) ==
    LET g1 == Gcd(Abs(x.n), y.d)
        g2 == Gcd(Abs(y.n), x.d)
    IN  IF IsZero(x) \/ IsZero(y) THEN Zero
        ELSE Mk((x.n \div g1) * (y.n \div g2),
                (x.d \div g2) * (y.d \div g1), x.e + y.e)

QDiv(x, y) == QMul(x, [n |-> Sgn(y.n) * y.d, d |-> Abs(y.n), e |-> -y.e])

\* Exact square root of a number that has a rational one.
QSqrt(x) ==
    IF IsZero(x) THEN Zero
    ELSE LET rn == Isqrt(x.n)
             rd == Isqrt(x.d)
         IN  CASE rn * rn = x.n /\ rd * rd = x.d /\ x.e % 2 = 0 ->
                      [n |-> rn, d |-> rd, e |-> x.e \div 2]

Sign(x) == Sgn(x.n)

\* The sign of x - y, without forming the difference of two floats that
\* are far apart.
SignOfDifference(x, y) ==
    IF x.d # 1 \/ y.d # 1 \/ Sign(x) = 0 \/ Sign(y) = 0
    THEN Sign(QAdd(x, Neg(y)))
    ELSE IF Sign(x) # Sign(y) THEN Sign(x)
    ELSE IF Msb(x) > Msb(y) THEN Sign(x)
    ELSE IF Msb(x) < Msb(y) THEN -Sign(x)
    ELSE Sign(QAdd(x, Neg(y)))

---------------------------------------------------------------------------
\* Rounding to Precision bits, to nearest, ties to even.

\* The float nearest to sign * (q + f) * 2^ex, where q > 0 is an integer
\* of more than Precision bits and 0 <= f < 1 with f # 0 iff sticky.
RoundInt(sign, q, sticky, ex) ==
    LET s    == BitLen(q) - Precision
        m    == q \div Pow2(s)
        r    == q % Pow2(s)
        half == Pow2(s - 1)
        up   == \/ r > half
                \/ r = half /\ sticky
                \/ r = half /\ ~sticky /\ m % 2 = 1
    IN  Mk(sign * (IF up THEN m + 1 ELSE m), 1, ex + s)

\* The float nearest to the number x.
RoundQ(x) ==
    IF IsZero(x) THEN Zero
    ELSE LET a   == Abs(x.n)
             k   == Precision + 2 + BitLen(x.d) - BitLen(a)
             num == IF k >= 0 THEN a * Pow2(k) ELSE a
             den == IF k >= 0 THEN x.d ELSE x.d * Pow2(-k)
         IN  RoundInt(Sgn(x.n), num \div den, num % den # 0, x.e - k)

\* The float nearest to the square root of the float x >= 0.
RoundSqrt(x) ==
    IF IsZero(x) THEN Zero
    ELSE LET s0 == IF 2 * Precision + 3 > BitLen(x.n)
                   THEN 2 * Precision + 3 - BitLen(x.n) ELSE 0
             s  == IF (x.e - s0) % 2 = 0 THEN s0 ELSE s0 + 1
             r  == x.n * Pow2(s)
             q  == Isqrt(r)
         IN  RoundInt(1, q, q * q # r, (x.e - s) \div 2)

\* The float nearest to x + y for floats x and y.  An operand below a
\* quarter of the other's unit in the last place cannot change the result.
RoundAdd(x, y) ==
    IF IsZero(x) THEN y
    ELSE IF IsZero(y) THEN x
    ELSE IF Msb(y) < Msb(x) - Precision - 1 THEN x
    ELSE IF Msb(x) < Msb(y) - Precision - 1 THEN y
    ELSE RoundQ(QAdd(x, y))

---------------------------------------------------------------------------
\* The arithmetic of the program: Python's float operators and math.sqrt.

Add(x, y)  == IF arith = "real" THEN QAdd(x, y) ELSE RoundAdd(x, y)
Sub(x, y)  == Add(x, Neg(y))
Mul(x, y)  == IF arith = "real" THEN QMul(x, y) ELSE RoundQ(QMul(x, y))
Div(x, y)  == IF arith = "real" THEN QDiv(x, y) ELSE RoundQ(QDiv(x, y))
sqrt(x)    == IF arith = "real" THEN QSqrt(x) ELSE RoundSqrt(x)


\* A decimal literal of the source: the float nearest to a value whose
\* leading 24 bits are head * 2^ex and whose further bits are not all zero.
Lit(head, ex) == RoundInt(1, head, TRUE, ex)

GRAVITATIONAL_CONSTANT == Lit(9618679, -57)

---------------------------------------------------------------------------
\* class MassiveObject

MassiveObject(name, mass, x, y, vx, vy) ==
    [name |-> name, mass |-> mass, x |-> x, y |-> y, vx |-> vx, vy |-> vy]

\* Mutant: "=" for "+=".
Accelerate_Overwrite(v, dt, a) == Mul(dt, a)

\* The velocity that apply_force leaves in one field: v += time_step * a.
Accelerate(v, dt, a) == Add(v, Mul(dt, a))

\* Mutant: the force is not divided by the mass.
x_acceleration_NoMass(self, force, cos_theta) == Mul(force, cos_theta)

\* acceleration = force / self.mass, times the cosine or the sine.
x_acceleration(self, force, cos_theta) == Mul(Div(force, self.mass), cos_theta)
y_acceleration(self, force, sin_theta) == Mul(Div(force, self.mass), sin_theta)

\* Mutant: apply_force moves the object as well.
apply_force_MovesToo(self, force, cos_theta, sin_theta, dt) ==
    [self EXCEPT
       !.vx = Accelerate(self.vx, dt, x_acceleration(self, force, cos_theta)),
       !.vy = Accelerate(self.vy, dt, y_acceleration(self, force, sin_theta)),
       !.x  = Add(self.x, Mul(self.vx, dt)),
       !.y  = Add(self.y, Mul(self.vy, dt))]

\* MassiveObject.apply_force: the object after the call.
apply_force(self, force, cos_theta, sin_theta, dt) ==
    [self EXCEPT
       !.vx = Accelerate(self.vx, dt, x_acceleration(self, force, cos_theta)),
       !.vy = Accelerate(self.vy, dt, y_acceleration(self, force, sin_theta))]

\* Mutant: the time step is left out.
Advance_NoStep(x, v, dt) == Add(x, v)

\* The position that update_position leaves in one field: x += v * time_step.
Advance(x, v, dt) == Add(x, Mul(v, dt))

\* MassiveObject.update_position: the object after the call.
update_position(self, dt) ==
    [self EXCEPT !.x = Advance(self.x, self.vx, dt),
                 !.y = Advance(self.y, self.vy, dt)]

---------------------------------------------------------------------------
\* apply_gravity

x_distance(object1, object2) == Sub(object2.x, object1.x)
y_distance(object1, object2) == Sub(object2.y, object1.y)

distance_squared(object1, object2) ==
    Add(Mul(x_distance(object1, object2), x_distance(object1, object2)),
        Mul(y_distance(object1, object2), y_distance(object1, object2)))

distance(object1, object2) == sqrt(distance_squared(object1, object2))

cos_theta(object1, object2) ==
    Div(x_distance(object1, object2), distance(object1, object2))

sin_theta(object1, object2) ==
    Div(y_distance(object1, object2), distance(object1, object2))

\* GRAVITATIONAL_CONSTANT * object1.mass * object2.mass, evaluated from
\* left to right.
MassProduct(object1, object2) ==
    Mul(Mul(GRAVITATIONAL_CONSTANT, object1.mass), object2.mass)

\* Mutant: the mass of object1 taken twice.
force_SameMassTwice(object1, object2) ==
    Div(MassProduct(object1, object1), distance_squared(object1, object2))

\* GRAVITATIONAL_CONSTANT * object1.mass * object2.mass / distance_squared
force(object1, object2) ==
    Div(MassProduct(object1, object2), distance_squared(object1, object2))

\* The first division of apply_gravity raises ZeroDivisionError when the
\* distance is 0.0, before either object is touched.
Raises(object1, object2) == IsZero(distance(object1, object2))

\* Mutants: the force handed to an object with the wrong sign.
ForceOn1_Repulsive(f) == Neg(f)
ForceOn2_SameSign(f)  == f

\* The signs with which apply_gravity hands the force to the two objects.
ForceOn1(f) == f
ForceOn2(f) == Neg(f)

\* The two objects after apply_gravity(object1, object2, dt) returned.
apply_gravity(object1, object2, dt) ==
    LET c == cos_theta(object1, object2)
        s == sin_theta(object1, object2)
        f == force(object1, object2)
    IN  <<apply_force(object1, ForceOn1(f), c, s, dt),
          apply_force(object2, ForceOn2(f), c, s, dt)>>

---------------------------------------------------------------------------
\* main: the simulation loop.

\* itertools.combinations(range(1, n + 1), 2): the pairs <<i, j>>, i < j,
\* in lexicographic order.
RECURSIVE PairsFrom(_, _, _)
PairsFrom(i, j, n) ==
    IF i >= n THEN <<>>
    ELSE IF j > n THEN PairsFrom(i + 1, i + 2, n)
    ELSE <<<<i, j>>>> \o PairsFrom(i, j + 1, n)

\* Mutant: itertools.permutations, every pair in both orders.
RECURSIVE OrderedFrom(_, _, _)
OrderedFrom(i, j, n) ==
    IF i > n THEN <<>>
    ELSE IF j > n THEN OrderedFrom(i + 1, 1, n)
    ELSE IF i = j THEN OrderedFrom(i, j + 1, n)
    ELSE <<<<i, j>>>> \o OrderedFrom(i, j + 1, n)

combinations_Ordered(n) == OrderedFrom(1, 1, n)

combinations(n) == PairsFrom(1, 2, n)

\* The system after apply_gravity on the objects at indices i and j.
Interact(system, i, j, dt) ==
    LET after == apply_gravity(system[i], system[j], dt)
    IN  [system EXCEPT ![i] = after[1], ![j] = after[2]]

\* Mutant: the loop over the pairs ends one pair early.
PairsDone_Early(k, n) == k > Len(combinations(n)) - 1

\* The inner for loop over the pairs is exhausted.
PairsDone(k, n) == k > Len(combinations(n))

\* The for loop over the objects is exhausted.
ObjectsDone(k, n) == k > n

---------------------------------------------------------------------------
\* The initial states: main's Sun and Earth, and small systems of zero to
\* three objects given to the same loop.

I(k) == Num(k, 0)

\* The values a run in real arithmetic starts from are chosen so that the
\* numbers of its first steps stay within 32-bit integers: the
\* objects lie on one axis, where every distance is rational.
LongStep == Num(1, 16)
Slow     == Num(1, -16)

Masses == {I(3), I(5)}

sun   == MassiveObject("Sun", Lit(13162097, 77), Zero, Zero, Zero, Zero)
earth == MassiveObject("Earth", Lit(10359768, 59),
                       Lit(9009399, 14), Zero, Zero, Neg(Lit(15249817, -9)))

seconds_in_one_day  == 24 * 60 * 60
steps               == 100
seconds_in_one_step == RoundQ(Mk(seconds_in_one_day, steps, 0))

MainScenario == [system |-> <<sun, earth>>, dt |-> seconds_in_one_step]

Places == {<<0, 0>>, <<1, 0>>, <<0, 2>>, <<3, 4>>, <<-1, 1>>}

TwoFloat ==
    { [system |-> << MassiveObject("A", mA, Zero, Zero, vxA, Zero),
                     MassiveObject("B", mB, I(p[1]), I(p[2]), Zero, vyB) >>,
       dt |-> dt] :
      mA \in Masses, mB \in Masses, p \in Places,
      vxA \in {Zero, I(1)}, vyB \in {Zero, I(-1)}, dt \in {I(1), LongStep} }

ThreeFloat ==
    { [system |-> << MassiveObject("A", mA, Zero, Zero, Zero, Zero),
                     MassiveObject("B", mB, I(p[1]), I(p[2]), Zero, Zero),
                     MassiveObject("C", I(3), I(q[1]), I(q[2]), I(1), Zero) >>,
       dt |-> dt] :
      mA \in Masses, mB \in Masses, p \in {<<1, 0>>, <<3, 4>>},
      q \in {<<-2, 0>>, <<0, -3>>}, dt \in {I(1), LongStep} }

OneObject ==
    { [system |-> << MassiveObject("A", I(3), I(x), Zero, vx, vy) >>, dt |-> dt] :
      x \in {0, 1}, vx \in {Zero, I(1), I(3)}, vy \in {Zero, I(-1)},
      dt \in {I(1), LongStep} }

NoObject == { [system |-> <<>>, dt |-> dt] : dt \in {I(1), LongStep} }

\* Systems on the x axis or on the y axis, for runs in real arithmetic.
OnAxis ==
    { [system |-> << MassiveObject("A", mA, Zero, Zero,
                                   IF ax = 1 THEN vA ELSE Zero,
                                   IF ax = 2 THEN vA ELSE Zero),
                     MassiveObject("B", mB,
                                   IF ax = 1 THEN I(p) ELSE Zero,
                                   IF ax = 2 THEN I(p) ELSE Zero,
                                   Zero, Zero) >>,
       dt |-> LongStep] :
      mA \in Masses, mB \in Masses, p \in {0, 1, 2, -4}, ax \in {1, 2},
      vA \in {Zero, Slow, Neg(Slow)} }

ThreeOnAxis ==
    { [system |-> << MassiveObject("A", mA, Zero, Zero, vA, Zero),
                     MassiveObject("B", mB, I(2), Zero, Zero, Zero),
                     MassiveObject("C", I(3), I(-4), Zero, Zero, Zero) >>,
       dt |-> LongStep] :
      mA \in Masses, mB \in Masses, vA \in {Zero, Num(1, -18)} }

FloatScenarios ==
    {MainScenario} \cup TwoFloat \cup ThreeFloat \cup OneObject \cup NoObject
                   \cup OnAxis \cup ThreeOnAxis

RealScenarios == OnAxis \cup ThreeOnAxis \cup OneObject \cup NoObject

\* Largest number of bits of a numerator or denominator with which a run in
\* real arithmetic begins another step.
MaxBits == 6

Fits(x) == BitLen(Abs(x.n)) <= MaxBits /\ BitLen(x.d) <= MaxBits

Tame(system) ==
    \A k \in 1..Len(system) :
        /\ Fits(system[k].x)  /\ Fits(system[k].y)
        /\ Fits(system[k].vx) /\ Fits(system[k].vy)

Init ==
    /\ arith \in {"float", "real"}
    /\ \E sc \in (IF arith = "real" THEN RealScenarios ELSE FloatScenarios) :
          /\ solar_system = sc.system
          /\ time_step = sc.dt
    /\ pc = "force"
    /\ pair = 1
    /\ object = 1
    /\ step = 0
    /\ start = solar_system
    /\ before = solar_system
    /\ calls = <<>>
    /\ initial = solar_system
    /\ at = <<>>
    /\ read = <<>>
    /\ overlapped = FALSE

N == Len(solar_system)

CurrentPair == combinations(N)[pair]

\* for (object1, object2) in combinations(solar_system, 2):
\*     apply_gravity(object1, object2, seconds_in_one_step)
ApplyGravity ==
    /\ pc = "force"
    /\ ~PairsDone(pair, N)
    /\ ~Raises(solar_system[CurrentPair[1]], solar_system[CurrentPair[2]])
    /\ solar_system' = Interact(solar_system, CurrentPair[1], CurrentPair[2],
                                time_step)
    /\ before' = solar_system
    /\ calls' = Append(calls, CurrentPair)
    /\ pair' = pair + 1
    /\ UNCHANGED <<arith, time_step, pc, object, step, start, initial, parallel>>

\* Mutant: apply_gravity returns at once when the distance is zero.
ApplyGravitySkips ==
    /\ pc = "force"
    /\ ~PairsDone(pair, N)
    /\ Raises(solar_system[CurrentPair[1]], solar_system[CurrentPair[2]])
    /\ before' = solar_system
    /\ calls' = Append(calls, CurrentPair)
    /\ pair' = pair + 1
    /\ UNCHANGED <<arith, time_step, solar_system, pc, object, step, start,
                   initial, parallel>>

\* apply_gravity raises ZeroDivisionError, which nothing catches: the
\* program ends with the objects as they were before the call.
ApplyGravityRaises ==
    /\ pc = "force"
    /\ ~PairsDone(pair, N)
    /\ Raises(solar_system[CurrentPair[1]], solar_system[CurrentPair[2]])
    /\ pc' = "raised"
    /\ before' = solar_system
    /\ calls' = Append(calls, CurrentPair)
    /\ UNCHANGED <<arith, time_step, solar_system, pair, object, step, start,
                   initial, parallel>>

\* The loop over the pairs ends and the loop over the objects begins.
BeginMove ==
    /\ pc = "force"
    /\ PairsDone(pair, N)
    /\ pc' = "move"
    /\ object' = 1
    /\ UNCHANGED <<arith, time_step, solar_system, pair, step, start, before,
                   calls, initial, parallel>>

\* for object in solar_system: object.update_position(seconds_in_one_step)
UpdatePosition ==
    /\ pc = "move"
    /\ ~ObjectsDone(object, N)
    /\ solar_system' = [solar_system EXCEPT
                          ![object] = update_position(solar_system[object],
                                                      time_step)]
    /\ object' = object + 1
    /\ UNCHANGED <<arith, time_step, pc, pair, step, start, before, calls,
                   initial, parallel>>

\* The loop over the objects ends, the position is printed, and the next
\* iteration begins (or the run ends).
EndStep ==
    /\ pc = "move"
    /\ ObjectsDone(object, N)
    /\ step' = step + 1
    /\ IF step + 1 < MaxSteps /\ (arith = "real" => Tame(solar_system))
       THEN /\ pc' = "force"
            /\ pair' = 1
            /\ start' = solar_system
            /\ before' = solar_system
            /\ calls' = <<>>
            /\ UNCHANGED object
       ELSE /\ pc' = "done"
            /\ UNCHANGED <<pair, object, start, before, calls>>
    /\ UNCHANGED <<arith, time_step, solar_system, initial, parallel>>

Next ==
    \/ ApplyGravity
    \/ ApplyGravityRaises
    \/ BeginMove
    \/ UpdatePosition
    \/ EndStep

Spec == Init /\ [][Next]_vars

---------------------------------------------------------------------------
\* One iteration executed in parallel, as the specification proposes: one
\* process per pair runs apply_gravity, and when all of them have returned
\* one process per object runs update_position.  A process reads or writes
\* one field in one step; "v += a" is a read of v followed by a write.

ParallelScenarios ==
    { sc \in ThreeOnAxis : sc.system[1].mass = I(5) /\ sc.system[2].mass = I(3) }

Pairs == combinations(N)

InitParallel ==
    /\ arith \in {"float", "real"}
    /\ \E sc \in ParallelScenarios :
          /\ solar_system = sc.system
          /\ time_step = sc.dt
    /\ pc = "force"
    /\ pair = 1
    /\ object = 1
    /\ step = 0
    /\ start = solar_system
    /\ before = solar_system
    /\ calls = <<>>
    /\ initial = solar_system
    /\ at = [k \in 1..Len(Pairs) |-> 0]
    /\ read = [k \in 1..Len(Pairs) |-> Zero]
    /\ overlapped = FALSE

\* apply_gravity of process k: the four updates "self.vx +=", "self.vy +="
\* of object1 and then of object2 are at positions 0..1, 2..3, 4..5, 6..7.
Returned == 8

Side(k)    == IF at[k] < 4 THEN 1 ELSE 2
Target(k)  == Pairs[k][Side(k)]
OnX(k)     == at[k] % 4 < 2
Object1(k) == solar_system[Pairs[k][1]]
Object2(k) == solar_system[Pairs[k][2]]

\* time_step * x_acceleration (or y_acceleration) is added to the value read.
NewVelocity(k) ==
    LET f == IF Side(k) = 1 THEN ForceOn1(force(Object1(k), Object2(k)))
                            ELSE ForceOn2(force(Object1(k), Object2(k)))
        a == IF OnX(k)
             THEN x_acceleration(solar_system[Target(k)], f,
                                 cos_theta(Object1(k), Object2(k)))
             ELSE y_acceleration(solar_system[Target(k)], f,
                                 sin_theta(Object1(k), Object2(k)))
    IN  Accelerate(read[k], time_step, a)

ReadVelocity(k) ==
    /\ pc = "force"
    /\ at[k] \in {0, 2, 4, 6}
    /\ ~Raises(Object1(k), Object2(k))
    /\ read' = [read EXCEPT ![k] = IF OnX(k) THEN solar_system[Target(k)].vx
                                             ELSE solar_system[Target(k)].vy]
    /\ at' = [at EXCEPT ![k] = @ + 1]
    /\ calls' = IF at[k] = 0 THEN Append(calls, Pairs[k]) ELSE calls
    /\ overlapped' = ( \/ overlapped
                       \/ /\ at[k] = 0
                          /\ \E l \in DOMAIN at : l # k /\ at[l] \notin {0, Returned} )
    /\ UNCHANGED <<arith, time_step, solar_system, pc, pair, object, step,
                   start, before, initial>>

WriteVelocity(k) ==
    /\ pc = "force"
    /\ at[k] \in {1, 3, 5, 7}
    /\ solar_system' =
          [solar_system EXCEPT ![Target(k)] =
              IF OnX(k) THEN [@ EXCEPT !.vx = NewVelocity(k)]
                        ELSE [@ EXCEPT !.vy = NewVelocity(k)]]
    /\ read' = [read EXCEPT ![k] = Zero]
    /\ at' = [at EXCEPT ![k] = @ + 1]
    /\ UNCHANGED <<arith, time_step, pc, pair, object, step, start, before,
                   calls, initial, overlapped>>

\* Every apply_gravity has returned: the processes of update_position begin,
\* "self.x +=" at positions 0..1 and "self.y +=" at 2..3.
Updated == 4

BeginMoveParallel ==
    /\ pc = "force"
    /\ \A k \in DOMAIN at : at[k] = Returned
    /\ pc' = "move"
    /\ at' = [k \in 1..N |-> 0]
    /\ read' = [k \in 1..N |-> Zero]
    /\ before' = solar_system
    /\ UNCHANGED <<arith, time_step, solar_system, pair, object, step, start,
                   calls, initial, overlapped>>

ReadPosition(k) ==
    /\ pc = "move"
    /\ at[k] \in {0, 2}
    /\ read' = [read EXCEPT ![k] = IF at[k] = 0 THEN solar_system[k].x
                                                ELSE solar_system[k].y]
    /\ at' = [at EXCEPT ![k] = @ + 1]
    /\ UNCHANGED <<arith, time_step, solar_system, pc, pair, object, step,
                   start, before, calls, initial, overlapped>>

WritePosition(k) ==
    /\ pc = "move"
    /\ at[k] \in {1, 3}
    /\ solar_system' =
          [solar_system EXCEPT ![k] =
              IF at[k] = 1
              THEN [@ EXCEPT !.x = Advance(read[k], solar_system[k].vx,
                                           time_step)]
              ELSE [@ EXCEPT !.y = Advance(read[k], solar_system[k].vy,
                                           time_step)]]
    /\ read' = [read EXCEPT ![k] = Zero]
    /\ at' = [at EXCEPT ![k] = @ + 1]
    /\ UNCHANGED <<arith, time_step, pc, pair, object, step, start, before,
                   calls, initial, overlapped>>

EndParallel ==
    /\ pc = "move"
    /\ \A k \in DOMAIN at : at[k] = Updated
    /\ pc' = "done"
    /\ UNCHANGED <<arith, time_step, solar_system, pair, object, step, start,
                   before, calls, initial, at, read, overlapped>>

NextParallel ==
    \/ \E k \in DOMAIN at : ReadVelocity(k)
    \/ \E k \in DOMAIN at : WriteVelocity(k)
    \/ BeginMoveParallel
    \/ \E k \in DOMAIN at : ReadPosition(k)
    \/ \E k \in DOMAIN at : WritePosition(k)
    \/ EndParallel

SpecParallel == InitParallel /\ [][NextParallel]_vars

\* The sequential reference: the two loops of an iteration of main.
RECURSIVE ForcePhase(_, _, _)
ForcePhase(system, k, dt) ==
    IF k = 0 THEN system
    ELSE LET p == combinations(Len(system))[k]
         IN  Interact(ForcePhase(system, k - 1, dt), p[1], p[2], dt)

AllForces(system, dt) ==
    ForcePhase(system, Len(combinations(Len(system))), dt)

AllPositions(system, dt) ==
    [k \in 1..Len(system) |-> update_position(system[k], dt)]

---------------------------------------------------------------------------
\* What the claims speak of.

\* apply_gravity has returned at least once in this iteration, and
\* solar_system still holds the velocities it left.
Called == calls # <<>> /\ pc # "raised"

\* The indices of the objects of the last call of apply_gravity.
First  == calls[Len(calls)][1]
Second == calls[Len(calls)][2]

\* The exact change of velocity of object k in the last call.
DeltaVx(k) == QSub(solar_system[k].vx, before[k].vx)
DeltaVy(k) == QSub(solar_system[k].vy, before[k].vy)

\* The sign of that change, without forming the difference of two floats
\* that are far apart.
SignDeltaVx(k) == SignOfDifference(solar_system[k].vx, before[k].vx)
SignDeltaVy(k) == SignOfDifference(solar_system[k].vy, before[k].vy)

\* The sign of the exact displacement from object i to object j before the
\* last call.
SignDispX(i, j) == SignOfDifference(before[j].x, before[i].x)
SignDispY(i, j) == SignOfDifference(before[j].y, before[i].y)

SamePlace(a, b) == a.x = b.x /\ a.y = b.y

\* The exact total momentum of a system, per component.
RECURSIVE SumX(_, _)
SumX(system, k) ==
    IF k = 0 THEN Zero
    ELSE QAdd(SumX(system, k - 1), QMul(system[k].mass, system[k].vx))

RECURSIVE SumY(_, _)
SumY(system, k) ==
    IF k = 0 THEN Zero
    ELSE QAdd(SumY(system, k - 1), QMul(system[k].mass, system[k].vy))

Momentum(system) == <<SumX(system, Len(system)), SumY(system, Len(system))>>

\* C1 as stated: one call of apply_gravity(A, B, dt) changes the momenta of
\* A and B by equal and opposite amounts, in x and in y:
\* mass(A) * dv(A) = -mass(B) * dv(B).
C1_EqualOpposite ==
    Called =>
        /\ QMul(before[First].mass, DeltaVx(First))
             = Neg(QMul(before[Second].mass, DeltaVx(Second)))
        /\ QMul(before[First].mass, DeltaVy(First))
             = Neg(QMul(before[Second].mass, DeltaVy(Second)))

\* C1 amended: the two momentum changes are equal and opposite in exact
\* arithmetic; in the program's floating point they are never in the same
\* direction (per component, one is zero or their signs differ), and they
\* are exactly equal and opposite when the masses are equal and the two
\* velocities were opposite before the call (the velocities are then
\* opposite after it as well).
C1_EqualOppositeUpToRounding ==
    Called =>
        /\ arith = "real" => C1_EqualOpposite
        /\ SignDeltaVx(First) * SignDeltaVx(Second) <= 0
        /\ SignDeltaVy(First) * SignDeltaVy(Second) <= 0
        /\ ( /\ before[First].mass = before[Second].mass
             /\ before[First].vx = Neg(before[Second].vx)
             /\ before[First].vy = Neg(before[Second].vy) )
           => /\ solar_system[First].vx = Neg(solar_system[Second].vx)
              /\ solar_system[First].vy = Neg(solar_system[Second].vy)

C1_Witness ==
    /\ Called
    /\ arith = "real"
    /\ before[First].mass # before[Second].mass
    /\ ~IsZero(DeltaVx(First))
    /\ ~IsZero(DeltaVx(Second))

\* C2: in exact arithmetic the total momentum of a system of two objects is
\* the same after any number of steps as it was initially.
C2_MomentumConserved ==
    (arith = "real" /\ N = 2) => Momentum(solar_system) = Momentum(initial)

C2_Witness ==
    /\ arith = "real" /\ N = 2 /\ pc = "done" /\ step >= 2
    /\ solar_system[1].mass # solar_system[2].mass
    /\ solar_system[1].vx # initial[1].vx
    /\ Momentum(initial)[1] # Zero

\* C3: in every step apply_gravity is invoked N*(N-1)/2 times, once for
\* every unordered pair of distinct objects: no pair twice, in either
\* order, and no object with itself.
C3_EachPairOnce ==
    /\ \A k \in 1..Len(calls) :
          /\ calls[k][1] \in 1..N /\ calls[k][2] \in 1..N
          /\ calls[k][1] # calls[k][2]
    /\ \A k, l \in 1..Len(calls) :
          k # l => {calls[k][1], calls[k][2]} # {calls[l][1], calls[l][2]}
    /\ pc \in {"move", "done"} =>
          /\ 2 * Len(calls) = N * (N - 1)
          /\ \A i, j \in 1..N :
                i # j => \E k \in 1..Len(calls) :
                            {calls[k][1], calls[k][2]} = {i, j}

C3_Witness == pc = "move" /\ N = 3 /\ Len(calls) = 3 /\ step = 1

\* C4: in a step no position changes until apply_gravity has run for every
\* pair: every force is computed from the positions of the start of the
\* step, and a position update adds time_step times the velocity that
\* holds the contributions of all pairs.
C4_ForcesBeforePositions ==
    /\ pc \in {"force", "raised"} =>
          \A k \in 1..N : SamePlace(solar_system[k], start[k])
    /\ (\E k \in 1..N : ~SamePlace(solar_system[k], start[k])) =>
          calls = combinations(N)
    /\ pc \in {"move", "done"} =>
          \A k \in 1..N :
             IF pc = "move" /\ k >= object
             THEN SamePlace(solar_system[k], start[k])
             ELSE /\ solar_system[k].x
                       = Add(start[k].x, Mul(solar_system[k].vx, time_step))
                  /\ solar_system[k].y
                       = Add(start[k].y, Mul(solar_system[k].vy, time_step))

C4_Witness ==
    /\ pc = "move" /\ N = 3 /\ object = 2
    /\ ~SamePlace(solar_system[1], start[1])
    /\ solar_system[1].vx # start[1].vx

\* C5: a step over one object calls apply_gravity for no pair, leaves the
\* velocity as it was and moves the position by velocity * time_step
\* (x += vx * dt, y += vy * dt); a step over no object changes nothing.
C5_SingleObject ==
    /\ N = 1 =>
          /\ calls = <<>>
          /\ pc # "raised"
          /\ solar_system[1].vx = initial[1].vx
          /\ solar_system[1].vy = initial[1].vy
          /\ (pc = "done" \/ (pc = "move" /\ object = 2)) =>
                /\ solar_system[1].x
                     = Add(start[1].x, Mul(start[1].vx, time_step))
                /\ solar_system[1].y
                     = Add(start[1].y, Mul(start[1].vy, time_step))
                /\ arith = "real" =>
                     /\ QSub(solar_system[1].x, start[1].x)
                          = QMul(start[1].vx, time_step)
                     /\ QSub(solar_system[1].y, start[1].y)
                          = QMul(start[1].vy, time_step)
    /\ N = 0 => /\ solar_system = initial
                /\ calls = <<>>
                /\ pc # "raised"

C5_Witness ==
    /\ N = 1 /\ pc = "done" /\ step >= 2
    /\ solar_system[1].x # initial[1].x
    /\ solar_system[1].y # initial[1].y

\* C6: apply_gravity on two objects at one and the same position ends in
\* a failure, and writes nothing into the velocity of either object.
C6_SamePlaceRaises ==
    (calls # <<>> /\ SamePlace(before[First], before[Second])) =>
        /\ pc = "raised"
        /\ solar_system = before

C6_Witness ==
    /\ pc = "raised"
    /\ calls # <<>>
    /\ SamePlace(before[First], before[Second])
    /\ step >= 1

\* C7: apply_gravity(A, B, dt) changes nothing but vx and vy of A and B;
\* the mass of every object stays the positive mass it began with.
C7_OnlyVelocities ==
    /\ (Called /\ pc = "force") =>
          \A k \in 1..N :
             /\ solar_system[k].x = before[k].x
             /\ solar_system[k].y = before[k].y
             /\ solar_system[k].mass = before[k].mass
             /\ solar_system[k].name = before[k].name
             /\ k \notin {First, Second} => solar_system[k] = before[k]
    /\ Len(solar_system) = Len(initial)
    /\ \A k \in 1..N :
          /\ solar_system[k].mass = initial[k].mass
          /\ solar_system[k].name = initial[k].name
          /\ Sign(solar_system[k].mass) = 1

C7_Witness ==
    /\ Called /\ pc = "force" /\ N = 3 /\ Len(calls) = 2
    /\ solar_system[First].vx # before[First].vx
    /\ solar_system[Second].vx # before[Second].vx

C9_ParallelSameAsSequential ==
    pc = "done" =>
        solar_system = AllPositions(AllForces(start, time_step), time_step)

\* C9 amended: the position updates, run in any order or in parallel, end
\* in the state the sequential loop over the objects reaches.  The calls
\* of apply_gravity, run one whole call at a time in any order, end in the
\* state of the sequential loop over the pairs in exact arithmetic.
C9_ParallelPositionsSerialForces ==
    /\ pc = "done" => solar_system = AllPositions(before, time_step)
    /\ (pc \in {"move", "done"} /\ arith = "real" /\ ~overlapped) =>
          before = AllForces(start, time_step)

C9_Witness ==
    /\ pc = "done"
    /\ arith = "real"
    /\ ~overlapped
    /\ calls # Pairs
    /\ \A k \in 1..N : /\ before[k].vx # start[k].vx
                       /\ solar_system[k].x # start[k].x

AboutToCall ==
    /\ pc = "force"
    /\ ~PairsDone(pair, N)
    /\ ~Raises(solar_system[CurrentPair[1]], solar_system[CurrentPair[2]])

\* C10 as stated: apply_gravity(A, B, dt) and apply_gravity(B, A, dt)
\* leave both objects in the same state.
C10_ArgumentOrder ==
    AboutToCall =>
        Interact(solar_system, CurrentPair[1], CurrentPair[2], time_step)
          = Interact(solar_system, CurrentPair[2], CurrentPair[1], time_step)

\* C10 amended: the two calls leave the same state whenever the product
\* G * mass * mass, which the code forms from left to right, comes out the
\* same in both orders: always in exact arithmetic, and for equal masses.
C10_ArgumentOrderSameProduct ==
    (/\ AboutToCall
     /\ MassProduct(solar_system[CurrentPair[1]], solar_system[CurrentPair[2]])
          = MassProduct(solar_system[CurrentPair[2]],
                        solar_system[CurrentPair[1]]))
    => C10_ArgumentOrder

C10_Witness ==
    /\ AboutToCall
    /\ solar_system[CurrentPair[1]].mass # solar_system[CurrentPair[2]].mass
    /\ MassProduct(solar_system[CurrentPair[1]], solar_system[CurrentPair[2]])
          = MassProduct(solar_system[CurrentPair[2]],
                        solar_system[CurrentPair[1]])
    /\ Interact(solar_system, CurrentPair[1], CurrentPair[2], time_step)
          # solar_system

====
